---- MODULE Spec2Model ----
\* Verification model of the llm-agent orchestration pipeline:
\*   main.py (LLMAgent.process_request, main), modules/tools_manager.py
\*   (ToolManager.execute_command), the tool wrappers, utils/location.py
\*   (LocationDetector.get_location) and modules/llm.py (RateLimiter.wait,
\*   LLMConfig, chat_prompt, structured_output_prompt).
\* Spec is the main loop; SpecRL and SpecSeq are callers of the limiter;
\* SpecMerge, SpecParse and SpecChat each apply one function to every input
\* of a bounded set.
\* Text values (str) are sequences of tokens, so that joining and formatting
\* are real operations: "" is <<>>, concatenation is \o.
EXTENDS Integers, Sequences, FiniteSets, TLC

\* ---------------------------------------------------------------- bounds
MaxPlan == 2          \* longest Plan the planner reply may hold
MaxSearch == 2        \* longest needs_search list of a DraftAnalysis
MaxTime == 14         \* last clock tick (seconds) of the rate-limiter runs
NumCallers == 2       \* tasks sharing the rate limiter

\* ------------------------------------------------------------ text values
None == <<"None">>            \* Python None where a str is optional
Absent == <<"<absent>">>      \* a key that a mapping does not hold
EmptyStr == <<>>

Falsy(v) == v = None \/ v = EmptyStr \/ v = Absent

\* true iff the token sequence part occurs contiguously in text
Contains(text, part) ==
    \E i \in 1..(Len(text) + 1) :
        /\ i + Len(part) - 1 <= Len(text)
        /\ SubSeq(text, i, i + Len(part) - 1) = part

\* "sep".join(parts)
RECURSIVE Join(_, _)
Join(parts, sep) ==
    IF parts = <<>> THEN <<>>
    ELSE IF Len(parts) = 1 THEN Head(parts)
    ELSE Head(parts) \o sep \o Join(Tail(parts), sep)

\* ------------------------------------------------------------ config.py
ALLOWED_COMMANDS == <<"search", "news", "weather", "time", "help">>

\* `command not in Config.ALLOWED_COMMANDS` negated (exact, case-sensitive)
IsAllowed_anycase(command) ==
    \/ \E i \in 1..Len(ALLOWED_COMMANDS) : ALLOWED_COMMANDS[i] = command
    \/ command = "Weather"
IsAllowed(command) ==
    \E i \in 1..Len(ALLOWED_COMMANDS) : ALLOWED_COMMANDS[i] = command

\* names a planner reply may hold: the allow-list and two names outside it
DisallowedNames == {"shell", "Weather"}
CommandNames == {ALLOWED_COMMANDS[i] : i \in 1..Len(ALLOWED_COMMANDS)} \cup DisallowedNames

\* ------------------------------------------------------ parameter mappings
ParamKeys == {"query", "topic", "location", "timezone"}
EmptyParams == [k \in ParamKeys |-> Absent]
OneParam(key, value) == [k \in ParamKeys |-> IF k = key THEN value ELSE Absent]

\* a params value of the planner reply that is no JSON object (a string, a list)
NotAMapping == [k \in ParamKeys |-> <<"<not a mapping>">>]
\* tool_params.update(params) raises on such a value
UpdateRaises(params) == params = NotAMapping

\* dict.get(key): None when the key is missing
Get(mapping, key) == IF mapping[key] = Absent THEN None ELSE mapping[key]
\* truthiness of a dict: non-empty
NonEmpty(mapping) == \E k \in ParamKeys : mapping[k] # Absent
\* a.update(b)
Update_keep(a, b) == [k \in ParamKeys |-> IF a[k] # Absent THEN a[k] ELSE b[k]]
Update(a, b) == [k \in ParamKeys |-> IF b[k] # Absent THEN b[k] ELSE a[k]]

\* ---------------------------------------------------- utils/location.py
FallbackLocation == [city |-> <<"London">>, country |-> <<"UK">>, timezone |-> <<"Europe/London">>]
DetectedLocation == [city |-> <<"Paris">>, country |-> <<"France">>, timezone |-> <<"Europe/Paris">>]
\* get_location(): the geolocation reply decides between the two
Locations == {FallbackLocation, DetectedLocation}

\* @lru_cache(maxsize=1) on get_location: once the cache is filled (by
\* ToolManager.__init__) a call returns the cached mapping, fallback or not,
\* and sends no request
CachedLookup_miss(cached) == [value |-> FallbackLocation, requests |-> 1]
CachedLookup(cached) == [value |-> cached, requests |-> 0]
NoLookup(cached) == [value |-> cached, requests |-> 0]

\* ------------------------------------------------- tools_manager.__init__
Defaults(loc) ==
    [search  |-> OneParam("query", <<"latest news">>),
     weather |-> OneParam("location", loc.city \o <<", ">> \o loc.country),
     news    |-> OneParam("topic", <<"technology">>),
     time    |-> OneParam("timezone", loc.timezone)]

\* self.defaults.get(command, {})
DefaultsGet(defs, command) ==
    IF command \in DOMAIN defs THEN defs[command] ELSE EmptyParams

\* tool_params = defaults.get(command, {}).copy(); if params: update(params)
MergeParams(defs, command, params) ==
    IF NonEmpty(params) THEN Update(DefaultsGet(defs, command), params)
    ELSE DefaultsGet(defs, command)

\* self.defaults once execute_command has merged: update() works on the
\* copy made by .copy(), so the registered mappings stay as they are
DefaultsAfter_nocopy(defs, command, params) ==
    IF command \in DOMAIN defs /\ NonEmpty(params) /\ ~UpdateRaises(params)
    THEN [defs EXCEPT ![command] = Update(@, params)]
    ELSE defs
DefaultsAfter(defs, command, params) == defs

\* the key each tool reads from tool_params
ParamKey(command) ==
    CASE command = "search" -> "query"
      [] command = "news" -> "topic"
      [] command = "weather" -> "location"
      [] command = "time" -> "timezone"
      [] OTHER -> "query"

CallerValue(command) ==
    CASE command = "search" -> <<"cats">>
      [] command = "news" -> <<"AI">>
      [] command = "weather" -> <<"Berlin">>
      [] command = "time" -> <<"Asia/Tokyo">>
      [] OTHER -> <<"x">>

\* ------------------------------------------------------------ tool results
EmptyDict == [tool |-> "", arg |-> EmptyStr, error |-> EmptyStr]
Data(tool, arg, error) == [tool |-> tool, arg |-> arg, error |-> error]

ToolReturn(data) == [raised |-> FALSE, data |-> data, msg |-> EmptyStr]
ToolRaise(msg) == [raised |-> TRUE, data |-> EmptyDict, msg |-> msg]

\* what the outbound HTTP request of a tool can do
HttpOutcomes == {"ok", "timeout", "status", "connect"}
HttpFailures == {"timeout", "status", "connect"}

\* SearchTool.search: every exception is caught and returned as a mapping
SearchTool_search(query, http) ==
    CASE http = "ok" -> {ToolReturn(Data("search", query, EmptyStr))}
      [] http = "timeout" -> {ToolReturn(Data("search", query, <<"Search request timed out">>))}
      [] http = "status" -> {ToolReturn(Data("search", query, <<"HTTPError">>))}
      [] OTHER -> {ToolReturn(Data("search", query, <<"ConnectionError">>))}

\* WeatherTool.get_weather: every exception is caught and returned as a mapping
WeatherTool_get_weather(location, http) ==
    CASE http = "ok" ->
            {ToolReturn(Data("weather", location, EmptyStr)),
             ToolReturn(Data("weather", location, <<"Unknown error from weather API">>))}
      [] http = "timeout" ->
            {ToolReturn(Data("weather", location, <<"Request timed out after multiple retries">>))}
      [] http = "status" ->
            {ToolReturn(Data("weather", location, <<"Failed to get weather data: ", "HTTPError">>))}
      [] OTHER ->
            {ToolReturn(Data("weather", location, <<"Failed to get weather data: ", "ConnectionError">>))}

\* NewsTool.get_latest_news: no try, no raise_for_status; requests.get and
\* response.json() raise
NewsTool_get_latest_news(topic, http) ==
    CASE http = "ok" -> {ToolReturn(Data("news", topic, EmptyStr))}
      [] http = "timeout" -> {ToolRaise(<<"ReadTimeout">>)}
      [] http = "status" ->
            {ToolReturn(Data("news", topic, <<"apiError body">>)),
             ToolRaise(<<"JSONDecodeError">>)}
      [] OTHER -> {ToolRaise(<<"ConnectionError">>)}

KnownTimezones == {<<"Europe/London">>, <<"Europe/Paris">>, <<"Asia/Tokyo">>}

\* TimeTool.get_time: local computation, the cached location fills a missing zone
TimeTool_get_time(timezone, loc) ==
    LET tz == IF Falsy(timezone) THEN loc.timezone ELSE timezone IN
    IF tz \in KnownTimezones
    THEN {ToolReturn(Data("time", tz, EmptyStr))}
    ELSE {ToolReturn(Data("time", <<"UTC">>, <<"Unknown timezone: ">> \o tz))}

\* the `help` branch builds its mapping in place: one entry per command,
\* the text of each holding the command's default
HelpText(defs) ==
    <<"search", "Search for information (default: ">> \o defs.search["query"] \o <<")">>
    \o <<"news", "Get latest news (default: ">> \o defs.news["topic"] \o <<")">>
    \o <<"weather", "Get weather information (default: ">> \o defs.weather["location"] \o <<")">>
    \o <<"time", "Get current time (default: ">> \o defs.time["timezone"] \o <<")">>
    \o <<"help", "Show available commands">>
HelpResult(defs) == ToolReturn(Data("help", HelpText(defs), EmptyStr))

\* commands whose tool issues an outbound HTTP request
UsesNetwork_help(command) == command \in {"search", "news", "weather", "help"}
UsesNetwork(command) == command \in {"search", "news", "weather"}

\* the tool call of execute_command's if/elif chain, given its HTTP outcome
ToolRun(command, arg, http, loc, defs) ==
    CASE command = "search" -> SearchTool_search(arg, http)
      [] command = "news" -> NewsTool_get_latest_news(arg, http)
      [] command = "weather" -> WeatherTool_get_weather(arg, http)
      [] command = "time" -> TimeTool_get_time(arg, loc)
      [] OTHER -> {HelpResult(defs)}

\* ------------------------------------------------------------ ToolResponse
ToolResponse(success, data, error) == [success |-> success, data |-> data, error |-> error]

NotAllowedError(command) ==
    <<"Command ", command, " not allowed. Allowed commands: ">> \o ALLOWED_COMMANDS

\* execute_command's outcome: a returned ToolResponse, or an escaping exception
Returned(response) == [escaped |-> FALSE, response |-> response]
Escaped(msg) == [escaped |-> TRUE, response |-> ToolResponse(FALSE, EmptyDict, msg)]

\* try: ... return ToolResponse(success=True, data=result)
\* except Exception as e: return ToolResponse(success=False, data={}, error=str(e))
Wrap_propagate(result) ==
    IF result.raised THEN Escaped(result.msg)
    ELSE Returned(ToolResponse(TRUE, result.data, None))
Wrap(result) ==
    IF result.raised THEN Returned(ToolResponse(FALSE, EmptyDict, result.msg))
    ELSE Returned(ToolResponse(TRUE, result.data, None))

NotAllowedResponse(command) == ToolResponse(FALSE, EmptyDict, NotAllowedError(command))


\* ------------------------------------------------------------------ state
VARIABLES
    pc,                 \* where main()/process_request stands
    user_input,         \* the line main() read last
    hist,               \* phases the current request has entered, in order
    plan,               \* the parsed Plan of the current request
    tasks,              \* one record per gathered execute_command task
    ready,              \* event loop: tasks scheduled and not yet started (FIFO)
    running,            \* event loop: the task holding the thread, 0 when none
    analysis,           \* the DraftAnalysis
    searchIdx,          \* enrichment loop: index of the next needs_search query
    searchBusy,         \* enrichment loop: a search request is in flight
    searches,           \* enrichment loop: one record per search invocation
    additional_info,    \* the enrichment set
    output,             \* what main() prints for the request
    modelCalls,         \* model HTTP requests of the current request, in order
    waits,              \* RateLimiter.wait() passes of the current request (their
                        \* timing is the subject of SpecRL and SpecSeq)
    location,           \* LocationDetector's cached result
    defaults,           \* ToolManager.defaults
    config,             \* the environment LLMConfig reads: which settings are there
    geoCalls,           \* geolocation requests LocationDetector has sent so far
    now,                \* time.time(), in seconds
    requests_per_minute,\* RateLimiter.requests_per_minute
    last_request_time,  \* RateLimiter.last_request_time
    callers,            \* tasks calling RateLimiter.wait()
    starts,             \* the times at which wait() returned, in order
    call,               \* a single call of one function: its arguments
    ret,                \* ... what it returned or raised
    applied             \* ... whether it has run

reqVars == <<pc, user_input, hist, plan, tasks, ready, running, analysis, searchIdx, searchBusy,
             searches, additional_info, output, modelCalls, waits>>
procVars == <<location, defaults, config, geoCalls>>
rlVars == <<now, requests_per_minute, last_request_time, callers, starts>>
fnVars == <<call, ret, applied>>
vars == <<reqVars, procVars, rlVars, fnVars>>

\* ------------------------------------------------------- planner replies
PlanItem(command, params) == [command |-> command, params |-> params]

\* the params a planner reply gives a command: none, the key its tool reads, or
\* a value that is no mapping; for time also an empty timezone
CallerParams(command) ==
    {EmptyParams, OneParam(ParamKey(command), CallerValue(command)), NotAMapping}
    \cup (IF command = "time" THEN {OneParam("timezone", EmptyStr)} ELSE {})

PlanItems == UNION {{PlanItem(c, p) : p \in CallerParams(c)} : c \in CommandNames}

SeqsUpTo(S, n) == UNION {[1..k -> S] : k \in 0..n}

Plans == SeqsUpTo(PlanItems, MaxPlan)

Queries == {<<"q1">>, <<"q2">>}
\* needs_search of a DraftAnalysis: missing, or a list of queries
NoAnalysis == [present |-> FALSE, needs_search |-> <<>>]
Analyses == {[present |-> b, needs_search |-> qs] :
                b \in BOOLEAN, qs \in SeqsUpTo(Queries, MaxSearch)}
             \ {[present |-> FALSE, needs_search |-> qs] : qs \in SeqsUpTo(Queries, MaxSearch) \ {<<>>}}

\* analysis.get("needs_search") is truthy
NeedsSearch(a) == a.present /\ a.needs_search # <<>>

\* ----------------------------------------------------------- task records
NoResponse == ToolResponse(FALSE, EmptyDict, None)
NoResult == ToolReturn(EmptyDict)
NewTask == [state |-> "created", http |-> "none", result |-> NoResult,
            response |-> NoResponse, escaped |-> FALSE,
            entered |-> 0, toolCalls |-> 0, netCalls |-> 0]

\* asyncio.gather(*[execute_command(cmd["command"], cmd["params"]) for cmd in plan])
Gather(p) == [i \in 1..Len(p) |-> NewTask]
Schedule(p) == [i \in 1..Len(p) |-> i]

\* the gather future resolves once every child is done
BarrierOpen_first ==
    /\ running = 0
    /\ (tasks = <<>> \/ \E i \in 1..Len(tasks) : tasks[i].state = "done")
BarrierOpen_nonempty ==
    /\ running = 0
    /\ ready = <<>>
    /\ tasks # <<>>
    /\ \A i \in 1..Len(tasks) : tasks[i].state = "done"
BarrierOpen ==
    /\ running = 0
    /\ ready = <<>>
    /\ \A i \in 1..Len(tasks) : tasks[i].state = "done"

\* errors = [resp.error for resp in tool_responses if not resp.success]
RECURSIVE Errors_first(_)
Errors_first(responses) ==
    IF responses = <<>> THEN <<>>
    ELSE IF ~Head(responses).success THEN <<Head(responses).error>>
    ELSE Errors_first(Tail(responses))
RECURSIVE Errors(_)
Errors(responses) ==
    IF responses = <<>> THEN <<>>
    ELSE IF ~Head(responses).success
         THEN <<Head(responses).error>> \o Errors(Tail(responses))
         ELSE Errors(Tail(responses))

\* f"Error(s) occurred: {'; '.join(errors)}"
ErrorMessage(errors) == <<"Error(s) occurred: ">> \o Join(errors, <<"; ">>)

Responses == [i \in 1..Len(tasks) |-> tasks[i].response]

\* ----------------------------------------------------------------- phases
Terminal == {"Done", "Aborted", "Failed"}

\* the phase process_request enters next
PhaseAfter_noenrich(phase, ok) ==
    CASE phase = "Planning" -> "Dispatching"
      [] phase = "Dispatching" -> IF ok THEN "Drafting" ELSE "Aborted"
      [] phase = "Drafting" -> "Finalizing"
      [] phase = "Enriching" -> "Finalizing"
      [] OTHER -> "Done"
PhaseAfter_nofinal(phase, ok) ==
    CASE phase = "Planning" -> "Dispatching"
      [] phase = "Dispatching" -> IF ok THEN "Drafting" ELSE "Aborted"
      [] phase = "Drafting" -> "Enriching"
      [] phase = "Enriching" -> "Done"
      [] OTHER -> "Done"
PhaseAfter(phase, ok) ==
    CASE phase = "Planning" -> "Dispatching"
      [] phase = "Dispatching" -> IF ok THEN "Drafting" ELSE "Aborted"
      [] phase = "Drafting" -> "Enriching"
      [] phase = "Enriching" -> "Finalizing"
      [] OTHER -> "Done"

Enter(p) == /\ pc' = p
            /\ hist' = Append(hist, p)

\* an exception leaves process_request: main() prints "Error: ..."
Fail_retry(msg) == /\ pc' = pc
                   /\ hist' = hist
                   /\ output' = <<"Error: ">> \o msg
Fail(msg) == /\ pc' = "Failed"
             /\ hist' = hist
             /\ output' = <<"Error: ">> \o msg

\* rate_limiter.wait() calls on the way to the HTTP request: chat_prompt
\* awaits it once; structured_output_prompt awaits it and then calls chat_prompt
LimiterPasses_once(kind) == 1
LimiterPasses(kind) == IF kind = "structured" THEN 2 ELSE 1

\* LLMConfig.__init__: if not self.api_key: raise ValueError(...)
KeyMissingError == <<"API key not provided and LLM_API_KEY not found in environment">>
\* chat_prompt builds its LLMConfig after rate_limiter.wait() and before
\* requests.post: without a key the call raises and no request is made
Post_twice(kind) ==
    modelCalls' = IF config.api_key THEN modelCalls \o <<kind, kind>> ELSE modelCalls
Post(kind) ==
    modelCalls' = IF config.api_key THEN Append(modelCalls, kind) ELSE modelCalls
\* requests.post(config.api_url, ...) can succeed only when there is a URL
CanReply == config.api_key /\ config.api_url


\* -------------------------------------------------------- modules/llm.py
\* seconds between two starts: self.interval = 60.0 / requests_per_minute
Interval(rpm) == 60 \div rpm

\* rates a limiter is constructed with (the shared one: 10)
Rates == {10, 20}

\* time.time() is epoch time: far beyond one interval after last_request_time = 0
StartTime == 6

IdleCaller == [pc |-> "idle", wake |-> 0, ret |-> 0]

RLInit ==
    /\ now = StartTime
    /\ requests_per_minute \in Rates
    /\ last_request_time = 0
    /\ callers = [c \in 1..NumCallers |-> IdleCaller]
    /\ starts = <<>>

\* ------------------------------------------------------------------- Init
ReqInit ==
    /\ pc = "Idle"
    /\ user_input = ""
    /\ hist = <<>>
    /\ plan = <<>>
    /\ tasks = <<>>
    /\ ready = <<>>
    /\ running = 0
    /\ analysis = NoAnalysis
    /\ searchIdx = 1
    /\ searchBusy = FALSE
    /\ searches = <<>>
    /\ additional_info = <<>>
    /\ output = <<>>
    /\ modelCalls = <<>>
    /\ waits = 0

\* LLMAgent(): ToolManager.__init__ has looked the location up and built defaults
ProcInit ==
    /\ location \in Locations
    /\ geoCalls = 1
    /\ defaults = Defaults(location)

\* os.getenv("LLM_API_KEY"), os.getenv("LLM_API_URL"): set or not
\* (LLM_MODEL is read too and only copied into the payload)
Configs == [api_key : BOOLEAN, api_url : BOOLEAN]
FullConfig == [api_key |-> TRUE, api_url |-> TRUE]

\* the shared limiter of llm.py: RateLimiter(requests_per_minute=10), unused so far
LimiterInit ==
    /\ now = StartTime
    /\ requests_per_minute = 10
    /\ last_request_time = 0
    /\ callers = [c \in 1..NumCallers |-> IdleCaller]
    /\ starts = <<>>

\* no single function call is under study
FnIdle ==
    /\ call = <<>>
    /\ ret = <<>>
    /\ applied = FALSE

Init ==
    /\ ReqInit
    /\ ProcInit
    /\ config \in Configs
    /\ LimiterInit
    /\ FnIdle

\* ------------------------------------------------------------ main() loop
\* lines a user may type
Inputs == {"exit", "EXIT", "what time is it"}
\* str.lower()
Lower(text) == IF text = "EXIT" THEN "exit" ELSE text

\* user_input.lower() == "exit": break
Exit ==
    /\ pc \in {"Idle"} \cup Terminal
    /\ \E text \in Inputs :
         /\ Lower(text) = "exit"
         /\ user_input' = text
    /\ pc' = "Exited"
    /\ UNCHANGED <<hist, plan, tasks, ready, running, analysis, searchIdx, searchBusy,
                   searches, additional_info, output, modelCalls, waits>>
    /\ UNCHANGED <<procVars, rlVars, fnVars>>

\* any other input: process_request(user_input) starts
ReadInput ==
    /\ pc \in {"Idle"} \cup Terminal
    /\ \E text \in Inputs :
         /\ Lower(text) # "exit"
         /\ user_input' = text
    /\ pc' = "Planning"
    /\ hist' = <<"Planning">>
    /\ plan' = <<>>
    /\ tasks' = <<>>
    /\ ready' = <<>>
    /\ running' = 0
    /\ analysis' = NoAnalysis
    /\ searchIdx' = 1
    /\ searchBusy' = FALSE
    /\ searches' = <<>>
    /\ additional_info' = <<>>
    /\ output' = <<>>
    /\ modelCalls' = <<>>
    /\ waits' = 0
    /\ UNCHANGED <<procVars, rlVars, fnVars>>

\* ------------------------------------------------ process_request, phase 1
\* plan = await structured_output_prompt(...): two limiter passes, one HTTP
\* request; then gather() schedules one task per command
PlanCall ==
    /\ pc = "Planning"
    /\ Post("plan")
    /\ waits' = waits + LimiterPasses("structured")
    /\ \/ /\ ~config.api_key
          /\ Fail(KeyMissingError)
          /\ UNCHANGED <<plan, tasks, ready>>
       \/ /\ config.api_key
          /\ Fail(<<"API request failed">>)
          /\ UNCHANGED <<plan, tasks, ready>>
       \/ /\ CanReply
          /\ Fail(<<"Failed to parse JSON response">>)
          /\ UNCHANGED <<plan, tasks, ready>>
       \/ \E p \in Plans :
            /\ CanReply
            /\ plan' = p
            /\ tasks' = Gather(p)
            /\ ready' = Schedule(p)
            /\ Enter(PhaseAfter("Planning", TRUE))
            /\ output' = output
    /\ UNCHANGED <<running, analysis, searchIdx, searchBusy, searches, additional_info>>
    /\ UNCHANGED <<user_input, procVars, rlVars, fnVars>>

\* --------------------------------------- execute_command as a gathered task
\* the argument the tool is called with
ToolArg(command, params) ==
    Get(MergeParams(defaults, command, params), ParamKey(command))

\* task i ends with `outcome`; an escaping exception would end the request
FinishTask(i, http, result, outcome, queue, t) ==
    /\ tasks' = [tasks EXCEPT ![i] = [t EXCEPT !.state = "done", !.http = http,
                                               !.result = result,
                                               !.response = outcome.response,
                                               !.escaped = outcome.escaped]]
    /\ running' = 0
    /\ ready' = queue
    /\ IF outcome.escaped
       THEN Fail(outcome.response.error)
       ELSE UNCHANGED <<pc, hist, output>>

\* the loop runs the next scheduled task up to its blocking HTTP request, or to
\* its end when it makes none
TaskStart(i) ==
    /\ pc = "Dispatching"
    /\ running = 0
    /\ ready # <<>>
    /\ i = Head(ready)
    /\ LET cmd == plan[i]
           t == [tasks[i] EXCEPT !.entered = @ + 1]
           \* get_time: if not timezone: self.location.get_location()
           lookup == IF /\ IsAllowed(cmd.command)
                        /\ ~UpdateRaises(cmd.params)
                        /\ cmd.command = "time"
                        /\ Falsy(ToolArg(cmd.command, cmd.params))
                     THEN CachedLookup(location) ELSE NoLookup(location)
       IN  /\ location' = lookup.value
           /\ geoCalls' = geoCalls + lookup.requests
           /\ defaults' = IF IsAllowed(cmd.command)
                          THEN DefaultsAfter(defaults, cmd.command, cmd.params)
                          ELSE defaults
           /\ IF ~IsAllowed(cmd.command)
              THEN FinishTask(i, "none", NoResult, Returned(NotAllowedResponse(cmd.command)),
                              Tail(ready), t)
              ELSE IF UpdateRaises(cmd.params)
              THEN FinishTask(i, "none", ToolRaise(<<"ValueError">>),
                              Wrap(ToolRaise(<<"ValueError">>)), Tail(ready), t)
              ELSE IF UsesNetwork(cmd.command)
              THEN /\ tasks' = [tasks EXCEPT ![i] = [t EXCEPT !.state = "inflight",
                                                              !.toolCalls = @ + 1,
                                                              !.netCalls = @ + 1]]
                   /\ running' = i
                   /\ ready' = Tail(ready)
                   /\ UNCHANGED <<pc, hist, output>>
              ELSE \E r \in ToolRun(cmd.command, ToolArg(cmd.command, cmd.params), "none", lookup.value, defaults) :
                       FinishTask(i, "none", r, Wrap(r), Tail(ready),
                                  [t EXCEPT !.toolCalls = IF cmd.command = "help" THEN @ ELSE @ + 1])
    /\ UNCHANGED <<plan, analysis, searchIdx, searchBusy, searches, additional_info,
                   modelCalls, waits>>
    /\ UNCHANGED <<user_input, config, rlVars, fnVars>>

\* the blocking request of the running task ends; the task runs to its return
TaskFinish(i) ==
    /\ pc = "Dispatching"
    /\ running = i
    /\ tasks[i].state = "inflight"
    /\ \E http \in HttpOutcomes :
         \E r \in ToolRun(plan[i].command, ToolArg(plan[i].command, plan[i].params), http, location, defaults) :
            FinishTask(i, http, r, Wrap(r), ready, tasks[i])
    /\ UNCHANGED <<plan, analysis, searchIdx, searchBusy, searches, additional_info,
                   modelCalls, waits>>
    /\ UNCHANGED <<user_input, procVars, rlVars, fnVars>>

\* ------------------------------------------------ process_request, phase 2
\* gather() has resolved: collect the errors, abort or go on to the draft
Inspect ==
    /\ pc = "Dispatching"
    /\ BarrierOpen
    /\ LET errors == Errors(Responses) IN
         IF errors # <<>>
         THEN /\ Enter(PhaseAfter("Dispatching", FALSE))
              /\ output' = ErrorMessage(errors)
         ELSE /\ Enter(PhaseAfter("Dispatching", TRUE))
              /\ output' = output
    /\ UNCHANGED <<plan, tasks, ready, running, analysis, searchIdx, searchBusy, searches,
                   additional_info, modelCalls, waits>>
    /\ UNCHANGED <<user_input, procVars, rlVars, fnVars>>

\* analysis = (await structured_output_prompt(...))[0]
\* plan and tool_responses go into the draft prompt and are never read again:
\* the batch is dropped from the state here
DraftCall ==
    /\ pc = "Drafting"
    /\ Post("draft")
    /\ waits' = waits + LimiterPasses("structured")
    /\ plan' = <<>>
    /\ tasks' = <<>>
    /\ \/ /\ ~config.api_key
          /\ Fail(KeyMissingError)
          /\ UNCHANGED <<analysis>>
       \/ /\ config.api_key
          /\ Fail(<<"API request failed">>)
          /\ UNCHANGED <<analysis>>
       \/ /\ CanReply
          /\ Fail(<<"Failed to parse JSON response">>)
          /\ UNCHANGED <<analysis>>
       \/ \E a \in Analyses :
            /\ CanReply
            /\ analysis' = a
            /\ Enter(PhaseAfter("Drafting", TRUE))
            /\ output' = output
    /\ UNCHANGED <<ready, running, searchIdx, searchBusy, searches, additional_info>>
    /\ UNCHANGED <<user_input, procVars, rlVars, fnVars>>


\* ------------------------------------------------ process_request, phase 3
NewSearch(query) == [query |-> query, state |-> "inflight", http |-> "none",
                     result |-> NoResult, response |-> NoResponse, escaped |-> FALSE]

\* if search_result.success: additional_info.append({"query": ..., "data": ...})
Collect(info, query, response) ==
    IF response.success
    THEN Append(info, [query |-> query, data |-> response.data])
    ELSE info

\* for query in analysis["needs_search"] has queries left
LoopRunning ==
    /\ NeedsSearch(analysis)
    /\ searchIdx <= Len(analysis.needs_search)

\* execute_command("search", {"query": query}) up to its blocking request
SearchStart ==
    /\ pc = "Enriching"
    /\ LoopRunning
    /\ ~searchBusy
    /\ LET query == analysis.needs_search[searchIdx] IN
         IF ~IsAllowed("search")
         THEN /\ searches' = Append(searches,
                    [NewSearch(query) EXCEPT !.state = "done",
                                             !.response = NotAllowedResponse("search")])
              /\ additional_info' = Collect(additional_info, query, NotAllowedResponse("search"))
              /\ searchIdx' = searchIdx + 1
              /\ searchBusy' = FALSE
         ELSE /\ searches' = Append(searches, NewSearch(query))
              /\ searchBusy' = TRUE
              /\ UNCHANGED <<additional_info, searchIdx>>
    /\ defaults' = IF IsAllowed("search")
                   THEN DefaultsAfter(defaults, "search",
                                      OneParam("query", analysis.needs_search[searchIdx]))
                   ELSE defaults
    /\ UNCHANGED <<pc, hist, plan, tasks, ready, running, analysis, output, modelCalls, waits>>
    /\ UNCHANGED <<user_input, location, config, geoCalls, rlVars, fnVars>>

\* the search request ends; the result is kept when it is a success
SearchFinish ==
    /\ pc = "Enriching"
    /\ searchBusy
    /\ LET k == Len(searches)
           query == searches[k].query
       IN  \E http \in HttpOutcomes :
             \E r \in ToolRun("search", ToolArg("search", OneParam("query", query)), http, location, defaults) :
                LET outcome == Wrap(r) IN
                /\ searches' = [searches EXCEPT ![k] = [@ EXCEPT !.state = "done",
                                                                 !.http = http,
                                                                 !.result = r,
                                                                 !.response = outcome.response,
                                                                 !.escaped = outcome.escaped]]
                /\ searchBusy' = FALSE
                /\ IF outcome.escaped
                   THEN /\ Fail(outcome.response.error)
                        /\ UNCHANGED <<additional_info, searchIdx>>
                   ELSE /\ additional_info' = Collect(additional_info, query, outcome.response)
                        /\ searchIdx' = searchIdx + 1
                        /\ UNCHANGED <<pc, hist, output>>
    /\ UNCHANGED <<plan, tasks, ready, running, analysis, modelCalls, waits>>
    /\ UNCHANGED <<user_input, procVars, rlVars, fnVars>>

\* the loop is over, or was never entered: go on to the final prompt
EnrichDone ==
    /\ pc = "Enriching"
    /\ ~searchBusy
    /\ ~LoopRunning
    /\ Enter(PhaseAfter("Enriching", TRUE))
    /\ UNCHANGED <<plan, tasks, ready, running, analysis, searchIdx, searchBusy, searches,
                   additional_info, output, modelCalls, waits>>
    /\ UNCHANGED <<user_input, procVars, rlVars, fnVars>>

\* ------------------------------------------------ process_request, phase 4
\* return await chat_prompt(...): one limiter pass, one HTTP request
FinalCall ==
    /\ pc = "Finalizing"
    /\ Post("final")
    /\ waits' = waits + LimiterPasses("chat")
    /\ \/ /\ ~config.api_key
          /\ Fail(KeyMissingError)
       \/ /\ config.api_key
          /\ Fail(<<"API request failed">>)
       \/ /\ CanReply
          /\ Enter(PhaseAfter("Finalizing", TRUE))
          /\ output' = <<"final answer">>
    /\ UNCHANGED <<plan, tasks, ready, running, analysis, searchIdx, searchBusy, searches,
                   additional_info>>
    /\ UNCHANGED <<user_input, procVars, rlVars, fnVars>>

Next ==
    \/ Exit
    \/ ReadInput
    \/ PlanCall
    \/ \E i \in 1..MaxPlan : TaskStart(i)
    \/ \E i \in 1..MaxPlan : TaskFinish(i)
    \/ Inspect
    \/ DraftCall
    \/ SearchStart
    \/ SearchFinish
    \/ EnrichDone
    \/ FinalCall

Spec == Init /\ [][Next]_vars


\* ------------------------------------------------------ RateLimiter.wait()
\* wait_time = self.interval - time_since_last_request
WaitTime_short(interval, since) == interval - since - 1
WaitTime(interval, since) == interval - since

\* self.last_request_time = time.time(); wait() returns
Stamp(c) ==
    /\ last_request_time' = now
    /\ starts' = Append(starts, now)

\* wait() from its entry to its first suspension: reads the clock, then either
\* stamps and returns at once or suspends in asyncio.sleep(wait_time)
WaitEnter(c) ==
    /\ callers[c].pc = "idle"
    /\ LET since == now - last_request_time
           interval == Interval(requests_per_minute)
       IN  IF since < interval
           THEN /\ callers' = [callers EXCEPT ![c] = [pc |-> "sleeping",
                                                      wake |-> now + WaitTime(interval, since),
                                                      ret |-> 0]]
                /\ UNCHANGED <<last_request_time, starts>>
           ELSE /\ callers' = [callers EXCEPT ![c] = [pc |-> "returned", wake |-> 0, ret |-> now]]
                /\ Stamp(c)
    /\ UNCHANGED <<now, requests_per_minute>>
    /\ UNCHANGED <<reqVars, procVars, fnVars>>

\* asyncio.sleep() is over (no earlier than asked): stamp without looking again
WaitWake(c) ==
    /\ callers[c].pc = "sleeping"
    /\ now >= callers[c].wake
    /\ callers' = [callers EXCEPT ![c] = [@ EXCEPT !.pc = "returned", !.ret = now]]
    /\ Stamp(c)
    /\ UNCHANGED <<now, requests_per_minute>>
    /\ UNCHANGED <<reqVars, procVars, fnVars>>

\* the caller's model call is over; it may call wait() again
CallAgain(c) ==
    /\ callers[c].pc = "returned"
    /\ callers' = [callers EXCEPT ![c] = [@ EXCEPT !.pc = "idle"]]
    /\ UNCHANGED <<now, requests_per_minute, last_request_time, starts>>
    /\ UNCHANGED <<reqVars, procVars, fnVars>>

\* one second passes
Tick ==
    /\ now < MaxTime
    /\ now' = now + 1
    /\ UNCHANGED <<requests_per_minute, last_request_time, callers, starts>>
    /\ UNCHANGED <<reqVars, procVars, fnVars>>

InitRL == ReqInit /\ ProcInit /\ config = FullConfig /\ RLInit /\ FnIdle

\* several tasks share the limiter and call wait() whenever they like
NextRL ==
    \/ \E c \in 1..NumCallers : WaitEnter(c)
    \/ \E c \in 1..NumCallers : WaitWake(c)
    \/ \E c \in 1..NumCallers : CallAgain(c)
    \/ Tick

SpecRL == InitRL /\ [][NextRL]_vars

\* a call of wait() made only when no other call of it is pending, as
\* process_request makes them (every model call is awaited)
SeqEnter(c) ==
    /\ \A d \in 1..NumCallers : callers[d].pc # "sleeping"
    /\ WaitEnter(c)

NextSeq ==
    \/ \E c \in 1..NumCallers : SeqEnter(c)
    \/ \E c \in 1..NumCallers : WaitWake(c)
    \/ \E c \in 1..NumCallers : CallAgain(c)
    \/ Tick

SpecSeq == InitRL /\ [][NextSeq]_vars


\* --------------------------------------- execute_command: the parameter merge
\* values a caller may give a key: none, a text, the empty text
CallerValues == {Absent, <<"cats">>, EmptyStr}
ParamMaps == [ParamKeys -> CallerValues]
MergeCalls == {[command |-> c, params |-> p] :
                 c \in {ALLOWED_COMMANDS[i] : i \in 1..Len(ALLOWED_COMMANDS)}, p \in ParamMaps}

InitMerge ==
    /\ ReqInit
    /\ ProcInit
    /\ config = FullConfig
    /\ LimiterInit
    /\ call \in MergeCalls
    /\ ret = EmptyParams
    /\ applied = FALSE

\* execute_command(call.command, call.params) builds tool_params
ApplyMerge ==
    /\ ~applied
    /\ IsAllowed(call.command)
    /\ ret' = MergeParams(defaults, call.command, call.params)
    /\ defaults' = DefaultsAfter(defaults, call.command, call.params)
    /\ applied' = TRUE
    /\ UNCHANGED <<call, reqVars, location, config, geoCalls, rlVars>>

NextMerge == ApplyMerge

SpecMerge == InitMerge /\ [][NextMerge]_vars


\* ------------------------------- structured_output_prompt: reading the reply
\* A reply is a sequence of pieces of text: a piece is the fence marker, a
\* language tag, white space, a bracket, a JSON scalar, or a word of prose.
Fence == "<fence>"                \* the marker of three backquotes
JsonTag == "json"
OtherTag == "python"
Ws == "\n"
Scalar == "1"
EscapedName == "\"a\\_b\""      \* a JSON string written with \_ : no valid JSON
PlainName == "\"a_b\""          \* the same string after replace("\\_", "_")
Prose == "note"

MaxBody == 3          \* longest middle part of a reply, in pieces

\* str.strip()
RECURSIVE LStrip(_)
LStrip(s) == IF s # <<>> /\ Head(s) = Ws THEN LStrip(Tail(s)) ELSE s
RECURSIVE RStrip(_)
RStrip(s) == IF s # <<>> /\ s[Len(s)] = Ws THEN RStrip(SubSeq(s, 1, Len(s) - 1)) ELSE s
Strip(s) == RStrip(LStrip(s))

\* str.startswith(p), str.endswith(p)
StartsWith(s, p) == Len(p) <= Len(s) /\ SubSeq(s, 1, Len(p)) = p
EndsWith(s, p) == Len(p) <= Len(s) /\ SubSeq(s, Len(s) - Len(p) + 1, Len(s)) = p

\* positions at which p occurs in s
Occurrences(s, p) ==
    {i \in 1..Len(s) : i + Len(p) - 1 <= Len(s) /\ SubSeq(s, i, i + Len(p) - 1) = p}
Min(S) == CHOOSE x \in S : \A y \in S : x <= y
Max(S) == CHOOSE x \in S : \A y \in S : x >= y

\* s.split(p)[1], for an s in which p occurs: what lies between the first
\* occurrence of p and the next one (or the end)
SplitSecond(s, p) ==
    LET first == Min(Occurrences(s, p))
        rest == SubSeq(s, first + Len(p), Len(s))
        more == Occurrences(rest, p)
    IN  IF more = {} THEN rest ELSE SubSeq(rest, 1, Min(more) - 1)

\* s.rsplit(p, 1)[0]: what lies before the last occurrence of p
RSplitFirst(s, p) ==
    IF Occurrences(s, p) = {} THEN s ELSE SubSeq(s, 1, Max(Occurrences(s, p)) - 1)

\* if startswith("```json"): split("```json")[1]
\* elif startswith("```"): split("```")[1]
StripLeadingFence(s) ==
    IF StartsWith(s, <<Fence, JsonTag>>) THEN SplitSecond(s, <<Fence, JsonTag>>)
    ELSE IF StartsWith(s, <<Fence>>) THEN SplitSecond(s, <<Fence>>)
    ELSE s

\* if endswith("```"): rsplit("```", 1)[0]
StripTrailingFence(s) ==
    IF EndsWith(s, <<Fence>>) THEN RSplitFirst(s, <<Fence>>) ELSE s

\* response.replace("\\_", "_")
Unescape(s) == [i \in 1..Len(s) |-> IF s[i] = EscapedName THEN PlainName ELSE s[i]]

\* lines 177-188: the text the try block starts from
CleanResponse(reply) == Unescape(StripTrailingFence(StripLeadingFence(Strip(reply))))

\* cleaned_response[:rfind(close) + 1], left alone when close does not occur
Truncate_none(s, close) == s
Truncate(s, close) ==
    IF Occurrences(s, <<close>>) = {} THEN s
    ELSE SubSeq(s, 1, Max(Occurrences(s, <<close>>)))

\* json.loads: white space between pieces does not count
NoWs(s) == SelectSeq(s, LAMBDA x : x # Ws)
JsonScalars == {Scalar, PlainName}
JsonClose(open) == IF open = "[" THEN "]" ELSE "}"
\* the position after the JSON value that starts at i, 0 when there is none
RECURSIVE SkipValue(_, _)
RECURSIVE SkipItems(_, _, _)
SkipValue(t, i) ==
    IF i > Len(t) THEN 0
    ELSE IF t[i] \in JsonScalars THEN i + 1
    ELSE IF t[i] \in {"[", "{"} THEN SkipItems(t, i + 1, JsonClose(t[i]))
    ELSE 0
SkipItems(t, i, close) ==
    IF i > Len(t) THEN 0
    ELSE IF t[i] = close THEN i + 1
    ELSE LET j == SkipValue(t, i) IN IF j = 0 THEN 0 ELSE SkipItems(t, j, close)

\* json.loads(text) does not raise JSONDecodeError: text is one JSON value
JsonValid(text) == LET t == NoWs(text) IN t # <<>> /\ SkipValue(t, 1) = Len(t) + 1
\* the value json.loads(text) returns
JsonValue(text) == NoWs(text)
\* the elements of a parsed array (a Python list), in order
RECURSIVE ItemsFrom(_, _)
ItemsFrom(t, i) ==
    IF i > Len(t) \/ t[i] = "]" THEN <<>>
    ELSE LET j == SkipValue(t, i) IN <<SubSeq(t, i, j - 1)>> \o ItemsFrom(t, j)
ListOf(value) == ItemsFrom(value, 2)

ParseReturn(value) == [raised |-> FALSE, value |-> value, msg |-> <<>>]
ParseRaise(msg) == [raised |-> TRUE, value |-> <<>>, msg |-> msg]

\* except json.JSONDecodeError: raise ValueError(f"Failed to parse JSON
\* response: {e}\nResponse was: {response}")
DecodeError(response) ==
    ParseRaise(<<"Failed to parse JSON response: ", "JSONDecodeError", "\nResponse was: ">>
               \o response)
\* raise ValueError(...) in the else branch: no JSONDecodeError, so the except
\* clause lets it through as it is
ShapeError == ParseRaise(<<"Response neither starts with [ nor {">>)

\* lines 176-218: what structured_output_prompt makes of the model's reply
StructuredParse(reply) ==
    LET response == CleanResponse(reply)
        cleaned == Strip(response)
    IN  IF StartsWith(cleaned, <<"[">>)
        THEN LET text == Truncate(cleaned, "]") IN
             IF JsonValid(text) THEN ParseReturn(ListOf(JsonValue(text)))
             ELSE DecodeError(response)
        ELSE IF StartsWith(cleaned, <<"{">>)
        THEN LET text == Truncate(cleaned, "}") IN
             IF JsonValid(text) THEN ParseReturn(<<JsonValue(text)>>)
             ELSE DecodeError(response)
        ELSE ShapeError

\* replies of the model: something before, a middle part, something after
ReplyPrefixes == {<<>>, <<Ws>>, <<Fence, Ws>>, <<Fence, JsonTag, Ws>>, <<Fence, OtherTag, Ws>>,
                  <<Fence, JsonTag>>, <<Prose, Ws>>}
ReplySuffixes == {<<>>, <<Ws>>, <<Ws, Fence>>, <<Ws, Fence, Ws>>, <<Ws, Prose>>, <<Ws, Fence, Prose>>}
BodyPieces == {"[", "]", "{", "}", Scalar, EscapedName, Prose}
Replies == {pre \o body \o post :
              pre \in ReplyPrefixes, body \in SeqsUpTo(BodyPieces, MaxBody), post \in ReplySuffixes}

InitParse ==
    /\ ReqInit
    /\ ProcInit
    /\ config = FullConfig
    /\ LimiterInit
    /\ call \in {[reply |-> r] : r \in Replies}
    /\ ret = ParseReturn(<<>>)
    /\ applied = FALSE

\* response = await chat_prompt(...) has returned call.reply
ApplyParse ==
    /\ ~applied
    /\ ret' = StructuredParse(call.reply)
    /\ applied' = TRUE
    /\ UNCHANGED <<call, reqVars, procVars, rlVars>>

NextParse == ApplyParse

SpecParse == InitParse /\ [][NextParse]_vars


\* ------------------------------------------------- chat_prompt: one call
\* the values of the LLMProvider enum
ProviderValues == {"mistral", "openai", "anthropic", "custom"}
\* a provider identifier the enum does not know
UnknownProvider == "llama"
Providers == ProviderValues \cup {UnknownProvider}

\* result = response.json() of a 2xx response: a JSON object with or without
\* the keys chat_prompt reads, a JSON array, or a body that is no JSON
ObjectBodies == [kind : {"object"},
                 choices : {"absent", "empty", "null", "list"},
                 response : {"absent", "text"},
                 content : {"absent", "list"}]
OtherBody(kind) == [kind |-> kind, choices |-> "absent", response |-> "absent", content |-> "absent"]
ResponseBodies == ObjectBodies \cup {OtherBody("array"), OtherBody("notjson")}

ChatReturn(text) == [raised |-> FALSE, value |-> text, msg |-> <<>>]
ChatRaise(msg) == [raised |-> TRUE, value |-> <<>>, msg |-> msg]

\* result["choices"][0]["message"]["content"]
ChoicesContent(body) ==
    IF body.kind = "array" THEN ChatRaise(<<"TypeError">>)
    ELSE CASE body.choices = "list" -> ChatReturn(<<"choices content">>)
           [] body.choices = "absent" -> ChatRaise(<<"KeyError">>)
           [] body.choices = "empty" -> ChatRaise(<<"IndexError">>)
           [] OTHER -> ChatRaise(<<"TypeError">>)
\* result["content"][0]["text"]
AnthropicContent(body) ==
    IF body.kind = "array" THEN ChatRaise(<<"TypeError">>)
    ELSE IF body.content = "list" THEN ChatReturn(<<"content text">>)
    ELSE ChatRaise(<<"KeyError">>)
\* result["response"]
ResponseField(body) ==
    IF body.response = "text" THEN ChatReturn(<<"response text">>)
    ELSE ChatRaise(<<"KeyError">>)
\* str(result)
StrOf(body) == <<"str(result): ">> \o <<body.choices, body.response, body.content>>

CaughtByLookup == {<<"KeyError">>, <<"IndexError">>}

\* the else branch: try choices, except (KeyError, IndexError) try response,
\* except KeyError str(result)
CustomContent(body) ==
    LET first == ChoicesContent(body) IN
    IF ~first.raised \/ first.msg \notin CaughtByLookup THEN first
    ELSE LET second == ResponseField(body) IN
         IF ~second.raised THEN second ELSE ChatReturn(StrOf(body))

\* the if/elif chain on config.provider
Extract(provider, body) ==
    CASE provider \in {"mistral", "openai"} -> ChoicesContent(body)
      [] provider = "anthropic" -> AnthropicContent(body)
      [] OTHER -> CustomContent(body)

\* the two except clauses of chat_prompt around the request and the lookup
Reraise(result) ==
    IF result.raised /\ result.msg \in CaughtByLookup
    THEN ChatRaise(<<"Unexpected API response format: ">> \o result.msg)
    ELSE result

\* chat_prompt(provider=...) against an endpoint whose request ends as http
\* and whose 2xx body is body; response.json() on a body that is no JSON
\* raises an error that is a RequestException or not, depending on the
\* version of requests
ChatPrompt(provider, cfg, http, body) ==
    IF provider \notin ProviderValues
    THEN {ChatRaise(<<"ValueError: ", provider, " is not a valid LLMProvider">>)}
    ELSE IF ~cfg.api_key THEN {ChatRaise(KeyMissingError)}
    ELSE IF ~cfg.api_url \/ http # "ok" THEN {ChatRaise(<<"API request failed">>)}
    ELSE IF body.kind = "notjson"
    THEN {ChatRaise(<<"API request failed">>), ChatRaise(<<"JSONDecodeError">>)}
    ELSE {Reraise(Extract(provider, body))}

ChatCalls == [provider : Providers, http : {"ok", "status"}, body : ResponseBodies]

InitChat ==
    /\ ReqInit
    /\ ProcInit
    /\ config \in Configs
    /\ LimiterInit
    /\ call \in ChatCalls
    /\ ret = ChatReturn(<<>>)
    /\ applied = FALSE

\* await chat_prompt(..., provider=call.provider)
ApplyChat ==
    /\ ~applied
    /\ ret' \in ChatPrompt(call.provider, config, call.http, call.body)
    /\ applied' = TRUE
    /\ UNCHANGED <<call, reqVars, procVars, rlVars>>

NextChat == ApplyChat

SpecChat == InitChat /\ [][NextChat]_vars


\* ------------------------------ model calls of one thread, with the clock
\* process_request awaits each model call, so the calls come one after the
\* other; the thread is caller 1 of the limiter
NoCall == [kind |-> "none", entered |-> 0, base |-> 0]
NoRequest == [kind |-> "none", entered |-> 0, at |-> 0, passes |-> 0]
\* wait() calls that have returned since the current call was entered
PassesDone == Len(starts) - call.base

InitLLM ==
    /\ ReqInit
    /\ ProcInit
    /\ config = FullConfig
    /\ RLInit
    /\ call = NoCall
    /\ ret = NoRequest
    /\ applied = FALSE

\* chat_prompt(...) or structured_output_prompt(...) is called
LLMEnter ==
    /\ call.kind = "none"
    /\ callers[1].pc = "idle"
    /\ \E kind \in {"chat", "structured"} :
         call' = [kind |-> kind, entered |-> now, base |-> Len(starts)]
    /\ UNCHANGED <<ret, applied, reqVars, procVars, rlVars>>

\* await rate_limiter.wait(): llm.py:151 and llm.py:92
LLMWait ==
    /\ call.kind # "none"
    /\ PassesDone < LimiterPasses(call.kind)
    /\ WaitEnter(1)

\* wait() has returned and the call goes on to its next wait()
LLMNextPass ==
    /\ call.kind # "none"
    /\ PassesDone < LimiterPasses(call.kind)
    /\ CallAgain(1)

\* requests.post(...): the HTTP request of the call starts
LLMPost ==
    /\ call.kind # "none"
    /\ callers[1].pc = "returned"
    /\ PassesDone = LimiterPasses(call.kind)
    /\ ret' = [kind |-> call.kind, entered |-> call.entered, at |-> now, passes |-> PassesDone]
    /\ applied' = TRUE
    /\ call' = NoCall
    /\ callers' = [callers EXCEPT ![1] = IdleCaller]
    /\ UNCHANGED <<now, requests_per_minute, last_request_time, starts, reqVars, procVars>>

NextLLM ==
    \/ LLMEnter
    \/ LLMWait
    \/ WaitWake(1)
    \/ LLMNextPass
    \/ LLMPost
    \/ Tick

SpecLLM == InitLLM /\ [][NextLLM]_vars


\* ================================================================= claims
Last(seq) == seq[Len(seq)]
IsPrefix(a, b) == Len(a) <= Len(b) /\ SubSeq(b, 1, Len(a)) = a
TaskIds == 1..Len(tasks)
\* the allow-list as the specification states it
AllowList == {"search", "news", "weather", "time", "help"}

FailedIds == {i \in TaskIds : tasks[i].state = "done" /\ ~tasks[i].response.success}
\* the error strings of the failed results, in plan order
RECURSIVE FailedErrorsFrom(_)
FailedErrorsFrom(i) ==
    IF i > Len(tasks) THEN <<>>
    ELSE IF i \in FailedIds THEN <<tasks[i].response.error>> \o FailedErrorsFrom(i + 1)
    ELSE FailedErrorsFrom(i + 1)

\* C1: once a result of the plan batch has success = false the request never
\* leaves dispatch except to abort; the abort message is the failed results'
\* error strings joined in plan order, it holds no data of a successful tool,
\* and neither a draft call, an enrichment search nor a final call is made.
C1_AbortOnFailure ==
    FailedIds # {} =>
        /\ pc \in {"Dispatching", "Aborted", "Exited"}
        /\ modelCalls = <<"plan">>
        /\ searches = <<>>
        /\ additional_info = <<>>
        /\ pc # "Dispatching" =>
            /\ Last(hist) = "Aborted"
            /\ output = <<"Error(s) occurred: ">> \o Join(FailedErrorsFrom(1), <<"; ">>)
            /\ \A i \in FailedIds : Contains(output, tasks[i].response.error)
            /\ \A i \in TaskIds \ FailedIds :
                    ~Contains(output, tasks[i].response.data.arg)

\* a plan of two commands that both failed, with different errors, was aborted
C1_Witness ==
    /\ pc = "Aborted"
    /\ Len(tasks) = 2
    /\ FailedIds = {1, 2}
    /\ tasks[1].result.raised
    /\ plan[2].command \notin AllowList

\* C2: every plan invocation whose outbound request timed out, got a non-2xx
\* status or could not connect yields success = false with a non-empty error,
\* and the request aborts instead of drafting.
C2_TransportFailureAborts ==
    \A i \in TaskIds :
        (tasks[i].state = "done" /\ tasks[i].http \in HttpFailures) =>
            /\ ~tasks[i].response.success
            /\ tasks[i].response.error \notin {None, EmptyStr}
            /\ pc \in {"Dispatching", "Aborted", "Exited"}

\* C3: a command name outside the allow-list gets a failed result with a
\* non-empty error, and neither a tool nor a network request is used for it.
C3_DisallowedRejected ==
    \A i \in TaskIds :
        (tasks[i].entered > 0 /\ plan[i].command \notin AllowList) =>
            /\ tasks[i].state = "done"
            /\ ~tasks[i].response.success
            /\ tasks[i].response.error \notin {None, EmptyStr}
            /\ tasks[i].toolCalls = 0
            /\ tasks[i].netCalls = 0
            /\ tasks[i].http = "none"

\* a disallowed name that differs from an allowed one only by case, with params
C3_Witness ==
    \E i \in TaskIds :
        /\ tasks[i].state = "done"
        /\ plan[i].command = "Weather"
        /\ NonEmpty(plan[i].params)

\* what a finished execute_command call must look like, given what its tool did
WellFormed(rec, command) ==
    /\ ~rec.escaped
    /\ rec.response.success \in BOOLEAN
    /\ (command \in AllowList /\ rec.result.raised) =>
            /\ ~rec.response.success
            /\ rec.response.error = rec.result.msg
            /\ rec.response.data = EmptyDict
    /\ (command \in AllowList /\ ~rec.result.raised) =>
            /\ rec.response.success
            /\ rec.response.data = rec.result.data
            /\ rec.response.error = None
    /\ command \notin AllowList => ~rec.response.success

\* C4: no exception leaves execute_command: every finished call, of the plan
\* batch or of the enrichment loop, has a well-formed result; a tool (or the
\* parameter merge) that raised gives success = false with the exception
\* message, a tool that returned gives success = true with its mapping.
C4_NoEscape ==
    /\ \A i \in TaskIds :
            tasks[i].state = "done" => WellFormed(tasks[i], plan[i].command)
    /\ \A k \in 1..Len(searches) :
            searches[k].state = "done" => WellFormed(searches[k], "search")

\* the news tool raised inside a plan of two commands and the batch went on
C4_Witness ==
    /\ Len(tasks) = 2
    /\ tasks[1].state = "done"
    /\ tasks[1].result.raised
    /\ tasks[1].response.error = <<"ConnectionError">>
    /\ tasks[2].state = "done"
    /\ tasks[2].response.success

\* tasks whose tool sends an outbound request
NetworkIds == {i \in TaskIds : plan[i].command \in {"search", "news", "weather"}}

\* C5: all tool requests of a plan are issued before any of them has
\* completed: once one request is over, every other one has been started.
C5_FanOut ==
    (\E i \in NetworkIds : tasks[i].state = "done") =>
        \A j \in NetworkIds : tasks[j].netCalls > 0

\* what the code does instead: at most one tool request is in flight
AtMostOneInFlight ==
    Cardinality({i \in TaskIds : tasks[i].state = "inflight"}) <= 1

\* C6: when the orchestrator looks at the results, every command of the plan
\* has been invoked exactly once and has completed, failed siblings or not.
C6_FailIndependent ==
    pc \in {"Aborted", "Drafting"} =>
        /\ Len(tasks) = Len(plan)
        /\ \A i \in TaskIds :
                /\ tasks[i].state = "done"
                /\ tasks[i].entered = 1

\* the first command failed and the second still ran its request to a success
C6_Witness ==
    /\ pc = "Aborted"
    /\ Len(tasks) = 2
    /\ ~tasks[1].response.success
    /\ tasks[2].entered = 1
    /\ tasks[2].netCalls = 1
    /\ tasks[2].response.success

\* C7: concurrent callers of wait() are released at least one interval apart,
\* and last_request_time is the release time of the latest one.
C7_AtomicStamp ==
    /\ \A i \in 1..Len(starts) : \A j \in 1..Len(starts) :
            i < j => starts[j] - starts[i] >= Interval(requests_per_minute)
    /\ starts # <<>> => last_request_time = Last(starts)

\* C8: sequential calls of wait(): consecutive recorded starts are at least
\* 60/R seconds apart, and a suspended call wakes no earlier than that after
\* the last recorded start.
C8_MinInterval ==
    /\ \A i \in 1..(Len(starts) - 1) :
            starts[i + 1] - starts[i] >= 60 \div requests_per_minute
    /\ \A c \in 1..NumCallers :
            callers[c].pc = "sleeping" =>
                callers[c].wake >= last_request_time + 60 \div requests_per_minute

\* at 10 requests/minute a second call had to sleep and returned 6 s after the first
C8_Witness ==
    /\ requests_per_minute = 10
    /\ Len(starts) >= 2
    /\ starts[2] - starts[1] = 6
    /\ \E c \in 1..NumCallers : callers[c].pc = "returned" /\ callers[c].wake > 0

SuccessPath == <<"Planning", "Dispatching", "Drafting", "Enriching", "Finalizing", "Done">>
AbortPath == <<"Planning", "Dispatching", "Aborted">>

\* C9: the phases a request has entered are always an initial part of
\* Planning, Dispatching, Drafting, Enriching, Finalizing, Done or of
\* Planning, Dispatching, Aborted; nothing follows Aborted, and a finished
\* request went through every phase.
C9_PhaseOrder ==
    /\ IsPrefix(hist, SuccessPath) \/ IsPrefix(hist, AbortPath)
    /\ pc \in {"Planning", "Dispatching", "Drafting", "Enriching", "Finalizing",
               "Done", "Aborted"} => (hist # <<>> /\ pc = Last(hist))
    /\ pc = "Done" => hist = SuccessPath
    /\ pc = "Aborted" => hist = AbortPath

\* a request with enrichment results reached Done
C9_Witness ==
    /\ pc = "Done"
    /\ additional_info # <<>>
    /\ modelCalls = <<"plan", "draft", "final">>

\* C10: at finalization every needs_search query has been searched exactly
\* once, the enrichment set is the successful searches in order, each with
\* its own data, and no search whose request failed is part of it.
C10_FailSoft ==
    pc = "Finalizing" =>
        /\ Len(searches) = (IF NeedsSearch(analysis) THEN Len(analysis.needs_search) ELSE 0)
        /\ \A k \in 1..Len(searches) : searches[k].query = analysis.needs_search[k]
        /\ additional_info =
             LET ok == SelectSeq(searches, LAMBDA x : x.response.success)
             IN  [j \in 1..Len(ok) |-> [query |-> ok[j].query, data |-> ok[j].response.data]]
        /\ \A k \in 1..Len(searches) :
                searches[k].http \in HttpFailures =>
                    \A j \in 1..Len(additional_info) :
                        additional_info[j].data # searches[k].response.data

\* what the code does instead: every search counts as a success, so every
\* query is in the enrichment set, a failed one with its error mapping as data
EverySearchKept ==
    pc = "Finalizing" =>
        /\ Len(additional_info) = Len(searches)
        /\ \A k \in 1..Len(searches) :
                /\ searches[k].response.success
                /\ additional_info[k] = [query |-> searches[k].query,
                                         data |-> searches[k].response.data]

\* the request is past its draft call and the draft asked for no search
NothingToSearch ==
    /\ Len(hist) >= 4
    /\ hist[4] = "Enriching"
    /\ analysis.needs_search = <<>>

\* C11: when needs_search is empty or absent the enrichment phase invokes no
\* tool, and the final model call is still made, with an empty enrichment set.
C11_NoSearchNeeded ==
    NothingToSearch =>
        /\ searches = <<>>
        /\ additional_info = <<>>
        /\ ~searchBusy
        /\ pc = "Enriching" => (modelCalls = <<"plan", "draft">> /\ ENABLED EnrichDone)
        /\ pc = "Finalizing" => (modelCalls = <<"plan", "draft">> /\ ENABLED FinalCall)
        /\ pc \in {"Done", "Failed", "Exited"} => modelCalls = <<"plan", "draft", "final">>

\* a request whose draft had no needs_search key got its final answer
C11_Witness ==
    /\ pc = "Done"
    /\ ~analysis.present
    /\ searches = <<>>
    /\ modelCalls = <<"plan", "draft", "final">>

\* C12: the params a tool gets are the registered defaults of the command
\* overlaid by the caller's params: a key the caller gives has the caller's
\* value, a key it omits has the default when there is one, and with no
\* params the tool gets exactly the defaults (weather: the cached location).
C12_DefaultsOverlaid ==
    applied =>
        /\ \A k \in ParamKeys :
              /\ call.params[k] # Absent => ret[k] = call.params[k]
              /\ call.params[k] = Absent =>
                    ret[k] = (IF call.command \in DOMAIN defaults
                              THEN defaults[call.command][k] ELSE Absent)
        /\ (call.command = "weather" /\ \A k \in ParamKeys : call.params[k] = Absent) =>
              ret = [k \in ParamKeys |-> IF k = "location"
                                         THEN location.city \o <<", ">> \o location.country
                                         ELSE Absent]

\* the caller named another location and a second key: its location replaced
\* the default, and the second key was added
C12_Witness ==
    /\ applied
    /\ call.command = "weather"
    /\ call.params["location"] = <<"cats">>
    /\ call.params["query"] = EmptyStr
    /\ ret["location"] = <<"cats">>
    /\ ret["query"] = EmptyStr
    /\ ret["timezone"] = Absent

\* the reply as the try block of structured_output_prompt sees it
Cleaned == Strip(CleanResponse(call.reply))
OpensJson(text) == text # <<>> /\ text[1] \in {"[", "{"}
\* text up to and including the last occurrence of piece
UpToLast(text, piece) ==
    LET at == {i \in 1..Len(text) : text[i] = piece}
    IN  IF at = {} THEN text ELSE SubSeq(text, 1, CHOOSE i \in at : \A j \in at : j <= i)
\* the sequence a JSON text stands for: an array's elements, or the one object
AsSequence(text) ==
    IF text[1] = "[" THEN ListOf(JsonValue(text)) ELSE <<JsonValue(text)>>

\* C13: a reply whose cleaned text starts with neither [ nor { never yields a
\* value: structured_output_prompt raises, and the message of the error
\* contains the raw reply.
C13_ShapeErrorCarriesReply ==
    (applied /\ ~OpensJson(Cleaned)) =>
        /\ ret.raised
        /\ Contains(ret.msg, call.reply)

\* what the code does instead: such a reply raises the bare ValueError of the
\* else branch, whose message is a fixed text
ShapeErrorIsBare ==
    (applied /\ ~OpensJson(Cleaned)) => ret = ShapeError

\* C14: whenever structured_output_prompt returns, the cleaned text opened
\* with [ or { and the result is a sequence: the elements of the array parsed
\* from the text cut after its last ], or the one object parsed from the text
\* cut after its last }. Text after the closing bracket that holds no such
\* bracket does not change the result.
C14_ResultShape ==
    applied =>
        /\ ~ret.raised =>
              /\ OpensJson(Cleaned)
              /\ LET text == UpToLast(Cleaned, JsonClose(Cleaned[1])) IN
                   /\ JsonValid(text)
                   /\ ret.value = AsSequence(text)
                   /\ Cleaned[1] = "{" => Len(ret.value) = 1
        /\ \A k \in 1..Len(Cleaned) :
              ( /\ OpensJson(Cleaned)
                /\ JsonValid(SubSeq(Cleaned, 1, k))
                /\ \A j \in (k + 1)..Len(Cleaned) : Cleaned[j] # JsonClose(Cleaned[1]) )
              => (~ret.raised /\ ret.value = AsSequence(SubSeq(Cleaned, 1, k)))

\* an object followed by a line of prose came back as a one-element sequence
C14_Witness ==
    /\ applied
    /\ call.reply = <<"{", Scalar, "}", Ws, Prose>>
    /\ ~ret.raised
    /\ ret.value = << <<"{", Scalar, "}">> >>

\* the JSON text of a reply that is a fenced block with the given tag
FencedBody(reply, tag) == SubSeq(reply, Len(tag) + 3, Len(reply) - 2)
IsFenced(reply, tag) ==
    /\ Len(reply) >= Len(tag) + 5
    /\ StartsWith(reply, <<Fence>> \o tag \o <<Ws>>)
    /\ EndsWith(reply, <<Ws, Fence>>)
    /\ OpensJson(FencedBody(reply, tag))
    /\ JsonValid(FencedBody(reply, tag))

\* C18: a valid JSON array or object between a leading fence marker, with or
\* without a language tag (any tag), and a trailing fence is returned parsed.
C18_AnyFenceStripped ==
    \A tag \in {<<>>, <<JsonTag>>, <<OtherTag>>} :
        (applied /\ IsFenced(call.reply, tag)) =>
            /\ ~ret.raised
            /\ ret.value = AsSequence(FencedBody(call.reply, tag))

\* what the code does instead: only a bare fence and the tag json are
\* stripped; any other tag stays in front of the JSON text
OnlyJsonFenceStripped ==
    /\ \A tag \in {<<>>, <<JsonTag>>} :
          (applied /\ IsFenced(call.reply, tag)) =>
              /\ ~ret.raised
              /\ ret.value = AsSequence(FencedBody(call.reply, tag))
    /\ (applied /\ IsFenced(call.reply, <<OtherTag>>)) => ret = ShapeError

\* chat_prompt got a 2xx response with a JSON body from a configured endpoint
GotJsonBody ==
    /\ applied
    /\ config = [api_key |-> TRUE, api_url |-> TRUE]
    /\ call.http = "ok"
    /\ call.body.kind # "notjson"

\* C15: with the provider custom, or an identifier that names no known
\* provider, chat_prompt never raises on a successful response: it returns
\* choices[0].message.content when the body has it, else the response field
\* when the body has it, else the body as text.
C15_CustomNeverRaises ==
    (GotJsonBody /\ call.provider \notin {"mistral", "openai", "anthropic"}) =>
        /\ ~ret.raised
        /\ ret.value = (IF call.body.choices = "list" THEN <<"choices content">>
                        ELSE IF call.body.response = "text" THEN <<"response text">>
                        ELSE <<"str(result): ">>
                             \o <<call.body.choices, call.body.response, call.body.content>>)

\* what the code does instead: the fallbacks work for the provider custom
\* and a JSON object whose choices, if any, is a list; an unknown identifier
\* is refused before any request is made
CustomObjectFallback ==
    /\ (GotJsonBody /\ call.provider = "custom" /\ call.body.kind = "object"
          /\ call.body.choices # "null") =>
            /\ ~ret.raised
            /\ ret.value = (IF call.body.choices = "list" THEN <<"choices content">>
                            ELSE IF call.body.response = "text" THEN <<"response text">>
                            ELSE <<"str(result): ">>
                                 \o <<call.body.choices, call.body.response, call.body.content>>)
    /\ (applied /\ call.provider \notin {"mistral", "openai", "anthropic", "custom"}) =>
            ret.raised

\* C16: a missing API key or endpoint is a fatal error of start-up: with one
\* of them missing no request is ever accepted, the limiter is never waited
\* on, no model call is made and nothing is reported from a model call.
C16_FatalAtStartup ==
    (~config.api_key \/ ~config.api_url) =>
        /\ pc \in {"Idle", "Exited"}
        /\ hist = <<>>
        /\ waits = 0
        /\ modelCalls = <<>>
        /\ output = <<>>

\* what the code does instead: the missing key is found by the first model
\* call of each request, after two passes of the limiter; main() prints the
\* error and reads the next input
KeyMissingFoundAtCall ==
    (~config.api_key /\ pc \notin {"Idle", "Planning", "Exited"}) =>
        /\ pc = "Failed"
        /\ hist = <<"Planning">>
        /\ waits = 2
        /\ modelCalls = <<>>
        /\ output = <<"Error: ", "API key not provided and LLM_API_KEY not found in environment">>
        /\ ENABLED ReadInput

\* help commands of the plan that were started with params that are a mapping
HelpIds == {i \in TaskIds : /\ plan[i].command = "help"
                            /\ tasks[i].entered > 0
                            /\ \A k \in ParamKeys : plan[i].params[k] # <<"<not a mapping>">>}

ParseFailure == <<"Error: ", "Failed to parse JSON response">>

\* C19: after a parse failure of the plan or the draft reply nothing more is
\* done for the request: the failed call is its last model call, no tool is
\* invoked after it, the error is what main() prints, and the loop reads the
\* next line; only a line that is exit in any letter case ends the loop.
C19_NoRetry ==
    /\ output = ParseFailure =>
          /\ pc \in {"Failed", "Exited"}
          /\ \/ /\ Last(hist) = "Planning"
                /\ modelCalls = <<"plan">>
                /\ tasks = <<>>
             \/ /\ Last(hist) = "Drafting"
                /\ modelCalls = <<"plan", "draft">>
          /\ searches = <<>>
          /\ additional_info = <<>>
          /\ running = 0
          /\ ready = <<>>
          /\ ~searchBusy
          /\ pc = "Failed" =>
                /\ ENABLED ReadInput
                /\ ~ENABLED PlanCall
                /\ ~ENABLED DraftCall
                /\ ~ENABLED FinalCall
                /\ ~ENABLED SearchStart
                /\ \A i \in 1..MaxPlan : ~ENABLED TaskStart(i)
    /\ pc = "Exited" => user_input \in {"exit", "EXIT"}
    /\ pc \notin {"Idle", "Exited"} => user_input \notin {"exit", "EXIT"}

\* the draft reply could not be parsed, after a plan whose tools all ran
C19_Witness ==
    /\ pc = "Failed"
    /\ output = ParseFailure
    /\ hist = <<"Planning", "Dispatching", "Drafting">>
    /\ modelCalls = <<"plan", "draft">>

\* time commands of the plan that ran without a timezone
NoZoneIds == {i \in TaskIds : /\ plan[i].command = "time"
                              /\ plan[i].params["timezone"] = EmptyStr
                              /\ tasks[i].state = "done"}

\* C20: the location is looked up once per process: whatever requests and
\* tool invocations have run, one geolocation request has been sent, and a
\* time command without timezone uses the value the start-up lookup cached
\* (the built-in default when that lookup failed), the one the defaults hold.
C20_LookupOnce ==
    /\ geoCalls <= 1
    /\ location \in {[city |-> <<"London">>, country |-> <<"UK">>, timezone |-> <<"Europe/London">>],
                     [city |-> <<"Paris">>, country |-> <<"France">>, timezone |-> <<"Europe/Paris">>]}
    /\ defaults.time["timezone"] = location.timezone
    /\ defaults.weather["location"] = location.city \o <<", ">> \o location.country
    /\ \A i \in NoZoneIds :
          /\ tasks[i].response.success
          /\ tasks[i].response.data.arg = defaults.time["timezone"]

\* the start-up lookup failed; a later time command without timezone got the
\* time of the built-in default zone
C20_Witness ==
    /\ geoCalls = 1
    /\ location.city = <<"London">>
    /\ \E i \in NoZoneIds : tasks[i].response.data.arg = <<"Europe/London">>

\* a step of a plan tool invocation: a gathered task starts or ends
PlanToolStep == tasks # <<>> /\ tasks' # <<>> /\ tasks' # tasks
\* a step of an enrichment search: it starts or ends
SearchStep == searches' # <<>> /\ searches' # searches

\* C21: a request whose plan batch holds a failure makes exactly one model
\* HTTP request, a request that completes makes exactly three: plan, draft,
\* final, in that order. Every plan tool invocation runs after the plan reply
\* and before the draft request, every enrichment search after the draft
\* reply and before the final request.
C21_CallOrder ==
    /\ [](/\ (FailedIds # {} \/ pc = "Aborted") => modelCalls = <<"plan">>
          /\ pc = "Done" => modelCalls = <<"plan", "draft", "final">>)
    /\ [][/\ PlanToolStep => (modelCalls = <<"plan">> /\ modelCalls' = <<"plan">>)
          /\ SearchStep => (modelCalls = <<"plan", "draft">>
                            /\ modelCalls' = <<"plan", "draft">>)]_vars

\* a request ran a tool for its plan and two searches and got its answer
C21_Witness ==
    /\ pc = "Done"
    /\ Len(searches) = 2
    /\ searches[2].state = "done"
    /\ modelCalls = <<"plan", "draft", "final">>
    /\ Len(hist) = 6

\* plan commands that ran without params and whose tool returned
BareIds == {i \in TaskIds : /\ plan[i].command \in {"search", "news", "weather", "time"}
                            /\ \A k \in ParamKeys : plan[i].params[k] = Absent
                            /\ tasks[i].state = "done"
                            /\ ~tasks[i].result.raised}

\* C22: execute_command leaves the registered defaults as they were built:
\* after any invocations, with any params, defaults is its value at
\* construction, and a command invoked without params gets the registered
\* default whatever params earlier invocations had.
C22_DefaultsKept ==
    /\ defaults = [search  |-> [k \in ParamKeys |-> IF k = "query" THEN <<"latest news">> ELSE Absent],
                   weather |-> [k \in ParamKeys |-> IF k = "location"
                                    THEN location.city \o <<", ">> \o location.country
                                    ELSE Absent],
                   news    |-> [k \in ParamKeys |-> IF k = "topic" THEN <<"technology">> ELSE Absent],
                   time    |-> [k \in ParamKeys |-> IF k = "timezone" THEN location.timezone
                                                    ELSE Absent]]
    /\ \A i \in BareIds :
          tasks[i].result.data.arg =
              (CASE plan[i].command = "search" -> <<"latest news">>
                 [] plan[i].command = "news" -> <<"technology">>
                 [] plan[i].command = "weather" -> location.city \o <<", ">> \o location.country
                 [] OTHER -> location.timezone)

\* weather was asked for Berlin and then, in the same plan, without params:
\* the second invocation got the location found at start-up
C22_Witness ==
    /\ Len(tasks) = 2
    /\ plan[1].command = "weather"
    /\ plan[1].params["location"] = <<"Berlin">>
    /\ tasks[1].result.data.arg = <<"Berlin">>
    /\ 2 \in BareIds
    /\ plan[2].command = "weather"
    /\ tasks[2].result.data.arg = location.city \o <<", ">> \o location.country

\* C23: every model HTTP request comes after a wait() made since the
\* previous one: a chat_prompt call passes the limiter once, a
\* structured_output_prompt call twice, so the request of a structured call
\* starts at least one minimum interval after the call was entered, idle
\* limiter or not.
C23_WaitBeforeRequest ==
    applied =>
        /\ ret.passes >= 1
        /\ call.kind = "none" => (ret.entered <= last_request_time /\ last_request_time <= ret.at)
        /\ ret.kind = "chat" => ret.passes = 1
        /\ ret.kind = "structured" =>
              /\ ret.passes = 2
              /\ ret.at - ret.entered >= 60 \div requests_per_minute

\* the first call of the process, on an idle limiter at 10 requests/minute,
\* was a structured one: its request started 6 s after it was entered
C23_Witness ==
    /\ applied
    /\ requests_per_minute = 10
    /\ ret.kind = "structured"
    /\ Len(starts) = 2
    /\ starts[1] = ret.entered
    /\ ret.at = ret.entered + 6

\* the planner's reply was an empty array and the draft call is still to come
EmptyPlan ==
    /\ plan = <<>>
    /\ Len(hist) >= 2
    /\ modelCalls = <<"plan">>

\* C24: with an empty Plan the dispatch phase invokes no tool, the request
\* is never aborted, and it goes on to the draft call with an empty list of
\* tool outputs.
C24_EmptyPlanDrafts ==
    EmptyPlan =>
        /\ tasks = <<>>
        /\ ready = <<>>
        /\ running = 0
        /\ output = <<>>
        /\ pc \in {"Dispatching", "Drafting"}
        /\ pc = "Dispatching" =>
              /\ hist = <<"Planning", "Dispatching">>
              /\ ENABLED Inspect
              /\ \A i \in 1..MaxPlan : ~ENABLED TaskStart(i)
        /\ pc = "Drafting" =>
              /\ hist = <<"Planning", "Dispatching", "Drafting">>
              /\ Responses = <<>>
              /\ ENABLED DraftCall

\* an empty Plan went through dispatch and stands before its draft call
C24_Witness ==
    /\ EmptyPlan
    /\ pc = "Drafting"
    /\ tasks = <<>>

====
